---- MODULE Spec2Model ----
(***************************************************************************)
(* Model of the conversational analytics pipeline of app.py and of the     *)
(* helpers it calls (ai_handler.py, query_executor.py, data_loader.py).    *)
(*                                                                         *)
(* Text is a sequence of tokens.  A token is an indivisible piece of text: *)
(* a whitespace character (" " or "\n"), a fence marker (three backquotes), one of the  *)
(* keywords the code tests for ("Error:", "import ") or any other word or  *)
(* statement.  strip, replace, split, join and startswith are computed on  *)
(* these sequences the way Python computes them on characters.             *)
(***************************************************************************)
EXTENDS Integers, Sequences, FiniteSets, TLC

VARIABLES
    df_main,                \* the session table (Optional)
    messages,               \* st.session_state.messages
    user_input_prompt,      \* st.session_state.user_input_prompt
    show_example_button,    \* st.session_state.show_example_button
    pc,                     \* position of the script run
    prompt,                 \* app.py local: the prompt being processed
    new_assistant_message,  \* app.py local: the message under construction
    sql_query,              \* app.py local
    result_df,              \* app.py local (Optional table)
    error,                  \* app.py local (Optional text)
    plotly_code,            \* app.py local (Optional text)
    fig,                    \* app.py local (Optional value)
    local_vars,             \* namespace handed to exec
    loop_iter,              \* parity of the iterations of a loop running in exec
    calls,                  \* history: invocations of each stage in this turn
    failed,                 \* history: stages that failed in this turn
    turn,                   \* history: state of the turn (spec 4.8)
    schema_info,            \* app.py local schema: the schema description
    messages_sent,          \* ai_handler local messages: what the translator sends
    notice,                 \* the st.error, st.warning or st.info box of the run
    last_call               \* history: the last stage call and what it met

vars == <<df_main, messages, user_input_prompt, show_example_button, pc, prompt,
          new_assistant_message, sql_query, result_df, error, plotly_code,
          fig, local_vars, loop_iter, calls, failed, turn, schema_info, messages_sent,
          notice,
          last_call>>

\* ---------------------------------------------------------------- bounds
\* Number of user prompts one behaviour submits.
MaxTurns == 2
\* Number of columns of the workbooks the standalone loader reads.
MaxColumns == 3

\* ------------------------------------------------------ Optional values
\* Python's None and a present value v.
None == <<>>
Some(v) == <<v>>
IsNone(o) == o = <<>>
The(o) == o[1]

\* ------------------------------------------------------------ str methods
\* The Markdown fence marker (three backquotes), one token, and the single
\* backquote the error messages of the app put around a text.
Fence == "<fence>"
Backquote == "<backquote>"

Whitespace == {" ", "\n"}

RECURSIVE lstrip(_)
lstrip(s) ==
    IF s # <<>> /\ Head(s) \in Whitespace THEN lstrip(Tail(s)) ELSE s

RECURSIVE rstrip(_)
rstrip(s) ==
    IF s # <<>> /\ s[Len(s)] \in Whitespace
    THEN rstrip(SubSeq(s, 1, Len(s) - 1))
    ELSE s

\* str.strip()
strip(s) == rstrip(lstrip(s))

\* str.replace(<<a>>, "") for a one-token pattern
replace1(s, a) == SelectSeq(s, LAMBDA t : t # a)

\* str.replace(<<a, b>>, "") for a two-token pattern: leftmost occurrences,
\* not overlapping
RECURSIVE replace2(_, _, _)
replace2(s, a, b) ==
    IF Len(s) < 2 THEN s
    ELSE IF s[1] = a /\ s[2] = b THEN replace2(SubSeq(s, 3, Len(s)), a, b)
    ELSE <<s[1]>> \o replace2(Tail(s), a, b)

\* str.startswith(<<a>>)
startswith(s, a) == Len(s) >= 1 /\ s[1] = a

\* str.split('\n'): the sequence of lines
RECURSIVE split_nl(_)
split_nl(s) ==
    IF \A i \in 1..Len(s) : s[i] # "\n" THEN <<s>>
    ELSE LET k == CHOOSE i \in 1..Len(s) :
                      s[i] = "\n" /\ \A j \in 1..(i - 1) : s[j] # "\n"
         IN <<SubSeq(s, 1, k - 1)>> \o split_nl(SubSeq(s, k + 1, Len(s)))

\* "\n".join(lines)
RECURSIVE join_nl(_)
join_nl(lines) ==
    IF lines = <<>> THEN <<>>
    ELSE IF Len(lines) = 1 THEN lines[1]
    ELSE lines[1] \o <<"\n">> \o join_nl(Tail(lines))

\* Python truthiness of a str
Truthy(s) == s # <<>>

\* ------------------------------------------------- reasoning-service call
\* Outcome of client.chat.completions.create(...) followed by
\* response.choices[0].message.content: the call raises, or the content is
\* None, or the content is a text (possibly empty).
Raised(e) == [kind |-> "raise", text |-> e]
NoContent == [kind |-> "none", text |-> <<>>]
Completion(t) == [kind |-> "content", text |-> t]

\* The test: if message_content
HasContent(response) == response.kind = "content" /\ Truthy(response.text)

\* Text of the exception a failed service call raises.
ServiceException == <<"Connection error.">>

\* ------------------------------------------------------------ ai_handler
ErrEmptyResponse == <<"Error:", " The AI model returned an empty response.">>
ErrCouldNotGenerate(e) == <<"Error:", " Could not generate SQL query. Details: ">> \o e

\* The system prompt of the translator, with the schema in it.
system_prompt(schema) ==
    <<"You are an expert data analyst who writes SQL queries.",
      "DataFrame Schema:">> \o schema \o <<"Instructions:">>

\* messages = [system] followed by messages.extend(chat_history)
sql_messages(chat_history, schema) ==
    <<[role |-> "system", content |-> system_prompt(schema)]>> \o chat_history

generate_sql(chat_history, schema, response) ==
    IF response.kind = "raise" THEN ErrCouldNotGenerate(response.text)
    ELSE IF HasContent(response)
    THEN replace1(replace2(strip(response.text), Fence, "sql"), Fence)
    ELSE ErrEmptyResponse

ErrPlotly(e) == <<"Error generating Plotly code: ">> \o e

IsImportLine(line) == startswith(strip(line), "import ")

generate_plotly_code(data, question, response) ==
    IF response.kind = "raise" THEN ErrPlotly(response.text)
    ELSE IF HasContent(response)
    THEN LET code == replace1(replace2(strip(response.text), Fence, "python"), Fence)
             plotly_code_lines == split_nl(code)
             cleaned_plotly_code_lines ==
                 SelectSeq(plotly_code_lines, LAMBDA line : ~IsImportLine(line))
         IN join_nl(cleaned_plotly_code_lines)
    ELSE <<>>

SummaryFallback == <<"No summary could be generated.">>
ErrSummary(e) == <<"Error generating summary: ">> \o e

generate_data_summary(data, question, response) ==
    IF response.kind = "raise" THEN ErrSummary(response.text)
    ELSE IF HasContent(response) THEN strip(response.text)
    ELSE SummaryFallback

\* -------------------------------------------------------- query_executor
\* A table: the dtypes of its columns, in order, and its number of rows.
Table(cols, n) == [columns |-> cols, nrows |-> n]

\* DataFrame.empty: some axis has length 0
empty(df) == df.nrows = 0 \/ Len(df.columns) = 0

\* Outcome of sqldf(q, {df: df}): a result table, no result set (None), a
\* PandaSQLException (the engine rejected the statement) or another exception.
EngineTable(t) == [kind |-> "table", table |-> t, msg |-> <<>>]
EngineNone == [kind |-> "none", table |-> Table(<<>>, 0), msg |-> <<>>]
EngineRejects(m) == [kind |-> "PandaSQLException", table |-> Table(<<>>, 0), msg |-> m]
EngineFails(m) == [kind |-> "Exception", table |-> Table(<<>>, 0), msg |-> m]

\* Returns the pair <<result_df, error>>.
execute_query(query, df, engine) ==
    CASE engine.kind = "table" -> <<Some(engine.table), None>>
      [] engine.kind = "none" -> <<None, None>>
      [] engine.kind = "PandaSQLException" ->
            <<None, Some(<<"SQL Error: ">> \o engine.msg
                         \o <<". Please check your query syntax.">>)>>
      [] OTHER ->
            <<None, Some(<<"An unexpected error occurred: ">> \o engine.msg)>>

\* DataFrame.select_dtypes(include=number).columns
IsNumber(dtype) == dtype \in {"int64", "float64"}
select_dtypes_number(df) == SelectSeq(df.columns, LAMBDA c : IsNumber(c.dtype))

\* ----------------------------------------------------------- data_loader
\* Mutant: the line of a column gives its name without its type.
RECURSIVE schema_lines_NameOnly(_)
schema_lines_NameOnly(cols) ==
    IF cols = <<>> THEN <<>>
    ELSE <<"- Column: ", Head(cols).name, "\n">>
         \o schema_lines_NameOnly(Tail(cols))

\* The loop over df.columns: one line per column, name and dtype.
RECURSIVE schema_lines(_)
schema_lines(cols) ==
    IF cols = <<>> THEN <<>>
    ELSE <<"- Column: ", Head(cols).name, " (Type: ", Head(cols).dtype, ")", "\n">>
         \o schema_lines(Tail(cols))

get_schema(df) ==
    IF IsNone(df) THEN <<>>
    ELSE <<"Table df has the following columns and data types:", "\n">>
         \o schema_lines(The(df).columns)

\* ------------------------------------------- exec(code, globals, locals)
\* The statements of generated code the model distinguishes: the names a
\* statement reads, the name it binds, the value bound, and what else
\* running it does.
Stmt(r, b, v, e) ==
    [valid |-> TRUE, reads |-> r, binds |-> b, value |-> v, effect |-> e]
NoStmt == [valid |-> FALSE, reads |-> {}, binds |-> {}, value |-> "", effect |-> "pass"]

\* The object bound to df after the code dropped its rows in place.
RowsDropped == "DataFrame, rows dropped in place"

Statement(tok) ==
    CASE tok = "fig = px.bar(df)" ->
            Stmt({"px", "df"}, {"fig"}, "Figure", "assign")
      [] tok = "fig = px.bar(df, title=str(len(df)))" ->
            Stmt({"px", "df", "str", "len"}, {"fig"}, "Figure", "assign")
      [] tok = "fig = undefined_name" ->
            Stmt({"undefined_name"}, {"fig"}, "Figure", "assign")
      [] tok = "fig = open(path)" ->
            Stmt({"open", "path"}, {"fig"}, "file", "assign")
      [] tok = "fig = 0" -> Stmt({}, {"fig"}, "0", "assign")
      [] tok = "x = df" -> Stmt({"df"}, {"x"}, "DataFrame", "assign")
      [] tok = "df.drop(df.index, inplace=True)" ->
            Stmt({"df"}, {"df"}, RowsDropped, "mutate")
      [] tok = "raise SystemExit" -> Stmt({"SystemExit"}, {}, "", "raise_base")
      [] tok = "while True: pass" -> Stmt({}, {}, "", "loop")
      [] OTHER -> NoStmt

\* One line of source text as a statement.  A blank line is no statement, an
\* indented line at the top level is an IndentationError, import statements
\* call the builtin __import__, any other text is a SyntaxError.
Parse(line) ==
    IF strip(line) = <<>> THEN Stmt({}, {}, "", "pass")
    ELSE IF Head(line) \in Whitespace THEN NoStmt
    ELSE IF Len(rstrip(line)) = 1 THEN Statement(line[1])
    ELSE IF Len(rstrip(line)) = 2 /\ line[1] = "import "
    THEN Stmt({"__import__"}, {line[2]}, "module", "assign")
    ELSE IF Len(rstrip(line)) = 4 /\ line[1] = "from " /\ line[3] = " import "
    THEN Stmt({"__import__"}, {line[4]}, "module", "assign")
    ELSE NoStmt

\* The names of the builtins module the statements above can read.
Builtins == {"__import__", "open", "len", "str", "SystemExit"}

\* exec puts a reference to the builtins module into a globals dictionary
\* that lacks the key __builtins__.
exec_globals(globals) == globals \cup {"__builtins__"}

\* Name lookup of code run by exec: locals, then globals, then builtins.
Resolves(name, globals, locals) ==
    \/ name \in DOMAIN locals
    \/ name \in exec_globals(globals)
    \/ name \in Builtins

ReachableNames(globals, locals) ==
    DOMAIN locals \cup exec_globals(globals) \cup Builtins

RECURSIVE run(_, _, _)
run(lines, globals, locals) ==
    IF lines = <<>> THEN [outcome |-> "ok", locals |-> locals]
    ELSE LET st == Parse(Head(lines)) IN
         IF \E n \in st.reads : ~Resolves(n, globals, locals)
         THEN [outcome |-> "Exception", locals |-> locals]
         ELSE IF st.effect = "raise_base"
         THEN [outcome |-> "BaseException", locals |-> locals]
         ELSE IF st.effect = "loop"
         THEN [outcome |-> "loop", locals |-> locals]
         ELSE run(Tail(lines), globals,
                  [n \in st.binds |-> st.value] @@ locals)

\* The whole text is compiled first (a SyntaxError is an Exception), then
\* run statement by statement.
exec(code, globals, locals) ==
    LET lines == split_nl(code) IN
    IF \E i \in 1..Len(lines) : ~Parse(lines[i]).valid
    THEN [outcome |-> "Exception", locals |-> locals]
    ELSE run(lines, globals, locals)

\* Python truthiness of a bound value; dict.get
TruthyValue(v) == v \notin {"0"}
get(d, key) == IF key \in DOMAIN d THEN Some(d[key]) ELSE None

\* st.plotly_chart(fig) raises for a value that is no figure.
Renderable(v) == v = "Figure"

\* ------------------------------------------------------------ the inputs
Col(n, t) == [name |-> n, dtype |-> t]

\* The loaded session table (the result of load_data).
LoadedTable ==
    Table(<<Col("country", "object"), Col("sales", "int64"), Col("year", "int64")>>, 3)

\* ------------------------------------------------ data_loader: load_data
\* What pd.read_excel meets: no file, a file it cannot read (or whose headers
\* are not text, so that col.strip raises), or a workbook with its header row.
FileMissing == [kind |-> "FileNotFoundError", columns |-> <<>>, nrows |-> 0]
FileUnreadable == [kind |-> "Exception", columns |-> <<>>, nrows |-> 0]
Workbook(cols, n) == [kind |-> "workbook", columns |-> cols, nrows |-> n]

\* df.columns.str.contains("^Unnamed")
IsUnnamed(name) == name = "Unnamed: 0"

\* col.strip().replace(" ", "_").replace(".", "_").replace("-", "_"), on the
\* headers of the model
sanitize(name) ==
    CASE name = " country" -> "country"
      [] name = "net-sales" -> "net_sales"
      [] name = "Fiscal Year" -> "Fiscal_Year"
      [] OTHER -> name

\* Both except clauses return None; the try block returns the table without
\* the unnamed columns and with sanitized names.
load_data(file) ==
    IF file.kind = "workbook"
    THEN LET kept == SelectSeq(file.columns, LAMBDA c : ~IsUnnamed(c.name))
         IN Some(Table([i \in DOMAIN kept |->
                           Col(sanitize(kept[i].name), kept[i].dtype)],
                       file.nrows))
    ELSE None

\* The data file of the application: absent, unreadable, or the workbook of
\* the session table.
DataFiles ==
    {FileMissing, FileUnreadable,
     Workbook(<<Col("Unnamed: 0", "int64"), Col(" country", "object"),
                Col("sales", "int64"), Col("year", "int64")>>, 3)}

\* The data files of the standalone run of data_loader: absent, unreadable,
\* or any workbook of at most MaxColumns columns with distinct headers.
Headers == {Col(h, t) : h \in {" country", "net-sales", "Fiscal Year", "Unnamed: 0"},
                        t \in {"object", "int64"}}
HeaderRows ==
    UNION {{cols \in [1..n -> Headers] :
               \A i, j \in 1..n : cols[i].name = cols[j].name => i = j}
           : n \in 0..MaxColumns}
StandaloneFiles ==
    {FileMissing, FileUnreadable} \cup {Workbook(cols, 1) : cols \in HeaderRows}

\* What the user types into st.chat_input, and the example of the button.
ChatPrompts == {<<"Which country sold most?">>}
example_question ==
    <<"What is the total transaction value for each fiscal year, based on Fiscal_Year_1?">>

\* Outcomes of the translation call.
SqlResponses ==
    {Raised(ServiceException), NoContent, Completion(<<>>),
     Completion(<<" ", "\n">>),
     Completion(<<Fence, "sql", "\n", Fence>>),
     Completion(<<"UPDATE df SET sales = 0;">>),
     Completion(<<"Error:", " the table has no column named region.">>),
     Completion(<<"SELECT country, sales FROM df;">>)}

\* Outcomes of the embedded engine.
ResultTables ==
    {Table(<<Col("sales", "int64")>>, 0),
     Table(<<Col("country", "object"), Col("sales", "int64")>>, 0),
     Table(<<Col("sales", "int64")>>, 1),
     Table(<<Col("country", "object"), Col("region", "object")>>, 1),
     Table(<<Col("country", "object"), Col("sales", "int64")>>, 1)}

EngineOutcomes ==
    {EngineTable(t) : t \in ResultTables}
    \cup {EngineNone, EngineRejects(<<"near ;: syntax error">>),
          EngineFails(<<"engine failure">>)}

\* A statement that writes, run on the copy of df the engine keeps in its
\* own database.
WritingStatements == {"UPDATE df SET sales = 0;"}

\* A statement of whitespace only, or one that writes, selects nothing: the
\* engine gives no result set or raises, never a table.
EngineOutcomesFor(query) ==
    IF strip(query) = <<>> \/ strip(query)[1] \in WritingStatements
    THEN {engine \in EngineOutcomes : engine.kind # "table"}
    ELSE EngineOutcomes

\* Outcomes of the summary call.
SummaryResponses ==
    {Raised(ServiceException), NoContent, Completion(<<" ">>),
     Completion(<<" ", "Sales are led by one country.", "\n">>)}

\* Outcomes of the synthesis call.
PlotlyResponses ==
    {Raised(ServiceException), NoContent,
     Completion(<<"fig = px.bar(df)">>),
     Completion(<<"import ", "os", "\n", "fig = px.bar(df)">>),
     Completion(<<"from ", "os", " import ", "path", "\n", "fig = px.bar(df)">>),
     Completion(<<"x = df">>),
     Completion(<<"df.drop(df.index, inplace=True)">>),
     Completion(<<"fig = 0">>),
     Completion(<<"from ", "os", " import ", "path", "\n", "fig = open(path)">>),
     Completion(<<"fig = undefined_name">>),
     Completion(<<"fig = px.bar(df, title=str(len(df)))">>),
     Completion(<<"raise SystemExit">>),
     Completion(<<"while True: pass">>)}

\* The box st.error, st.warning or st.info shows in the running script; it
\* is not part of a message and the next script run does not show it again.
st_error(text) == Some([kind |-> "error", text |-> text])
st_warning(text) == Some([kind |-> "warning", text |-> text])
st_info(text) == Some([kind |-> "info", text |-> text])

NoChartWarning == <<"The AI generated code that did not produce a chart.">>
RenderingError == <<"An error occurred while rendering the visualization: ", "e">>
NotGeneratedInfo ==
    <<"A visualization could not be generated for this query result.">>
NotSuitableInfo ==
    <<"The query result is not suitable for a visualization at this time.">>

\* A stage call together with what the service or the engine answered.
Met(stage, response) == [stage |-> stage, response |-> response]
NoCall == Met("none", NoContent)

\* ------------------------------------------------------------------- app
Welcome ==
    [role |-> "assistant",
     content |-> <<"Hello! I am your AI Data Analyst. How can I help you explore your data today?">>,
     dataframe |-> None, plot |-> None, sql_query |-> None,
     plotly_code |-> None, summary |-> None]

EmptyAssistantMessage ==
    [role |-> "assistant", content |-> <<>>, dataframe |-> None, plot |-> None,
     sql_query |-> None, plotly_code |-> None, summary |-> None]

Stages == {"generate_sql", "execute_query", "generate_data_summary",
           "generate_plotly_code", "exec"}
NoCalls == [s \in Stages |-> 0]
Called(s) == calls' = [calls EXCEPT ![s] = @ + 1]

NumUserTurns == Cardinality({i \in DOMAIN messages : messages[i].role = "user"})

Init ==
    /\ messages = <<Welcome>>
    /\ user_input_prompt = <<>>
    /\ show_example_button = TRUE
    /\ df_main = Some(LoadedTable)
    /\ pc = "idle"
    /\ prompt = <<>>
    /\ new_assistant_message = EmptyAssistantMessage
    /\ sql_query = <<>>
    /\ result_df = None
    /\ error = None
    /\ plotly_code = None
    /\ fig = None
    /\ local_vars = <<>>
    /\ loop_iter = 0
    /\ calls = NoCalls
    /\ failed = {}
    /\ turn = "None"
    /\ schema_info = <<>>
    /\ messages_sent = <<>>
    /\ notice = None
    /\ last_call = NoCall

\* Mutant: the script goes on without testing the table.
DataLoaded_Always(df) == TRUE

\* The test: if df_main is not None
DataLoaded(df) == ~IsNone(df)

\* The application before its first script run: nothing in session_state.
LoadInit ==
    /\ messages = <<>>
    /\ user_input_prompt = <<>>
    /\ show_example_button = FALSE
    /\ df_main = None
    /\ pc = "load"
    /\ prompt = <<>>
    /\ new_assistant_message = EmptyAssistantMessage
    /\ sql_query = <<>>
    /\ result_df = None
    /\ error = None
    /\ plotly_code = None
    /\ fig = None
    /\ local_vars = <<>>
    /\ loop_iter = 0
    /\ calls = NoCalls
    /\ failed = {}
    /\ turn = "None"
    /\ schema_info = <<>>
    /\ messages_sent = <<>>
    /\ notice = None
    /\ last_call = NoCall

CriticalError ==
    <<"Critical Error: The data file could not be loaded. The application cannot continue.">>

\* The first script run: load the data; with a table create the session
\* state, without one show the critical error and do nothing else.
LoadStep ==
    /\ pc = "load"
    /\ \E file \in DataFiles :
         /\ df_main' = load_data(file)
         /\ last_call' = Met("load_data", file)
         /\ IF DataLoaded(load_data(file))
            THEN /\ messages' = <<Welcome>>
                 /\ show_example_button' = TRUE
                 /\ UNCHANGED notice
            ELSE /\ notice' = st_error(CriticalError)
                 /\ UNCHANGED <<messages, show_example_button>>
    /\ pc' = "idle"
    /\ UNCHANGED <<user_input_prompt, prompt, new_assistant_message, sql_query,
                   result_df, error, plotly_code, fig, local_vars, loop_iter,
                   calls, failed, turn, schema_info, messages_sent>>

\* The standalone run of data_loader: load the file, then describe the table.
MainLoadStep ==
    /\ pc = "load"
    /\ \E file \in StandaloneFiles :
         /\ df_main' = load_data(file)
         /\ last_call' = Met("load_data", file)
         /\ pc' = IF IsNone(load_data(file)) THEN "done" ELSE "loaded"
    /\ UNCHANGED <<messages, user_input_prompt, show_example_button, prompt,
                   new_assistant_message, sql_query, result_df, error,
                   plotly_code, fig, local_vars, loop_iter, calls, failed,
                   turn, schema_info, messages_sent, notice>>

MainSchemaStep ==
    /\ pc = "loaded"
    /\ schema_info' = get_schema(df_main)
    /\ pc' = "done"
    /\ UNCHANGED <<df_main, messages, user_input_prompt, show_example_button,
                   prompt, new_assistant_message, sql_query, result_df, error,
                   plotly_code, fig, local_vars, loop_iter, calls, failed,
                   turn, notice, last_call, messages_sent>>

\* st.button of the example question: store the prompt, hide the button and
\* rerun the script.
ClickExampleButton ==
    /\ pc = "idle"
    /\ DataLoaded(df_main)
    /\ show_example_button
    /\ NumUserTurns < MaxTurns
    /\ user_input_prompt' = example_question
    /\ show_example_button' = FALSE
    /\ pc' = "rerun"
    /\ UNCHANGED <<messages, df_main, prompt, new_assistant_message, sql_query,
                   result_df, error, plotly_code, fig, local_vars, loop_iter,
                   calls, failed, turn, schema_info, messages_sent, notice, last_call>>

\* The script from the test of the prompt to the start of the pipeline: append
\* the user message and prepare the assistant message.
StartTurn(p) ==
    /\ prompt' = p
    /\ show_example_button' = FALSE
    /\ messages' = Append(messages, [role |-> "user", content |-> p])
    /\ new_assistant_message' = EmptyAssistantMessage
    /\ sql_query' = <<>>
    /\ result_df' = None
    /\ error' = None
    /\ plotly_code' = None
    /\ fig' = None
    /\ local_vars' = <<>>
    /\ loop_iter' = 0
    /\ calls' = NoCalls
    /\ failed' = {}
    /\ turn' = "Received"
    /\ schema_info' = <<>>
    /\ messages_sent' = <<>>
    /\ notice' = None
    /\ last_call' = NoCall
    /\ pc' = "generate_sql"
    /\ UNCHANGED df_main

\* The script run the button requested: the stored prompt is taken and cleared.
RunWithButtonPrompt ==
    /\ pc = "rerun"
    /\ Truthy(user_input_prompt)
    /\ user_input_prompt' = <<>>
    /\ StartTurn(user_input_prompt)

\* The script run a submission to st.chat_input starts.
ChatInput ==
    /\ pc = "idle"
    /\ DataLoaded(df_main)
    /\ ~Truthy(user_input_prompt)
    /\ NumUserTurns < MaxTurns
    /\ \E p \in ChatPrompts : StartTurn(p)
    /\ UNCHANGED user_input_prompt

\* Mutant: the assistant message is written over the last entry of the log.
Finish_Overwrite(msg, t) ==
    /\ messages' = [messages EXCEPT ![Len(messages)] = msg]
    /\ new_assistant_message' = msg
    /\ pc' = "idle"
    /\ turn' = t

\* Append the assistant message; st.rerun() ends the script run.
Finish(msg, t) ==
    /\ messages' = Append(messages, msg)
    /\ new_assistant_message' = msg
    /\ pc' = "idle"
    /\ turn' = t

\* The history handed to the translator: role and content of every message.
chat_history_for_api ==
    [i \in DOMAIN messages |->
        [role |-> messages[i].role, content |-> messages[i].content]]

\* Mutant: the error text of the translator is not recognised.
IsSqlError_Never(q) == FALSE

\* The test: sql_query.startswith("Error:")
IsSqlError(q) == startswith(q, "Error:")

\* Mutant: a translation that gave an error text is attempted once more.
GenerateSqlStep_Retry ==
    /\ pc = "generate_sql"
    /\ \E response \in SqlResponses :
         LET q == generate_sql(chat_history_for_api, get_schema(df_main), response)
             msg == [new_assistant_message EXCEPT !.sql_query = Some(q)]
             response_content ==
                 <<"Sorry, I encountered an error during SQL generation:",
                   "\n", "\n", Backquote>> \o q \o <<Backquote>>
         IN /\ sql_query' = q
            /\ schema_info' = get_schema(df_main)
            /\ messages_sent' = sql_messages(chat_history_for_api, get_schema(df_main))
            /\ Called("generate_sql")
            /\ last_call' = Met("generate_sql", response)
            /\ failed' = IF HasContent(response) THEN failed
                         ELSE failed \cup {"translation"}
            /\ IF IsSqlError(q) /\ calls["generate_sql"] = 0
               THEN UNCHANGED <<messages, new_assistant_message, pc, turn, notice>>
               ELSE IF IsSqlError(q)
               THEN /\ Finish([msg EXCEPT !.content = response_content],
                              "FailedTranslation")
                    /\ notice' = st_error(response_content)
               ELSE /\ new_assistant_message' = msg
                    /\ pc' = "execute_query"
                    /\ turn' = "Translated"
                    /\ UNCHANGED <<messages, notice>>
    /\ UNCHANGED <<df_main, user_input_prompt, show_example_button, prompt,
                   result_df, error, plotly_code, fig, local_vars, loop_iter>>

\* Step 1: generate the SQL query; on an error text append the message and
\* rerun.
GenerateSqlStep ==
    /\ pc = "generate_sql"
    /\ \E response \in SqlResponses :
         LET q == generate_sql(chat_history_for_api, get_schema(df_main), response)
             msg == [new_assistant_message EXCEPT !.sql_query = Some(q)]
             response_content ==
                 <<"Sorry, I encountered an error during SQL generation:",
                   "\n", "\n", Backquote>> \o q \o <<Backquote>>
         IN /\ sql_query' = q
            /\ schema_info' = get_schema(df_main)
            /\ messages_sent' = sql_messages(chat_history_for_api, get_schema(df_main))
            /\ Called("generate_sql")
            /\ last_call' = Met("generate_sql", response)
            /\ notice' = IF IsSqlError(q) THEN st_error(response_content)
                         ELSE notice
            /\ failed' = IF HasContent(response) THEN failed
                         ELSE failed \cup {"translation"}
            /\ IF IsSqlError(q)
               THEN Finish([msg EXCEPT !.content = response_content],
                           "FailedTranslation")
               ELSE /\ new_assistant_message' = msg
                    /\ pc' = "execute_query"
                    /\ turn' = "Translated"
                    /\ UNCHANGED messages
    /\ UNCHANGED <<df_main, user_input_prompt, show_example_button, prompt,
                   result_df, error, plotly_code, fig, local_vars, loop_iter>>

\* Mutant: the error of the executor is not tested.
HasError_Never(e) == FALSE

\* The test: if error
HasError(e) == ~IsNone(e) /\ Truthy(The(e))

\* Mutant: only an absent table counts as no results.
NoResults_NoneOnly(df) == IsNone(df)

\* The test: result_df is None or result_df.empty
NoResults(df) == IsNone(df) \/ empty(The(df))

NoResultsContent == <<"The query ran successfully but returned no results.">>

\* Step 2: execute the query; append and rerun on an error, append the
\* no-results message (and rerun at the end of the script) on an empty result.
ExecuteQueryStep ==
    /\ pc = "execute_query"
    /\ \E engine \in EngineOutcomesFor(sql_query) :
         LET r == execute_query(sql_query, The(df_main), engine)
             response_content ==
                 <<"I encountered an error running the query:", "\n", "\n",
                   Backquote>>
                 \o (IF IsNone(r[2]) THEN <<>> ELSE The(r[2])) \o <<Backquote>>
         IN /\ result_df' = r[1]
            /\ error' = r[2]
            /\ Called("execute_query")
            /\ last_call' = Met("execute_query", engine)
            /\ notice' = IF HasError(r[2]) THEN st_error(response_content)
                         ELSE IF NoResults(r[1]) THEN st_warning(NoResultsContent)
                         ELSE notice
            /\ failed' = IF engine.kind \in {"PandaSQLException", "Exception"}
                         THEN failed \cup {"execution"}
                         ELSE failed
            /\ IF HasError(r[2])
               THEN Finish([new_assistant_message EXCEPT
                                !.content = response_content],
                           "FailedExecution")
               ELSE IF NoResults(r[1])
               THEN Finish([new_assistant_message EXCEPT
                                !.content = NoResultsContent],
                           "NoResults")
               ELSE /\ pc' = "generate_data_summary"
                    /\ turn' = "Executed"
                    /\ UNCHANGED <<messages, new_assistant_message>>
    /\ UNCHANGED <<df_main, user_input_prompt, show_example_button, prompt,
                   sql_query, plotly_code, fig, local_vars, loop_iter,
                   schema_info, messages_sent>>

\* Mutant: one column is enough for the gate.
SuitableForVisualization_OneColumn(df) ==
    Len(df.columns) >= 1 /\ Len(select_dtypes_number(df)) > 0

\* The gate: len(result_df.columns) >= 2 and len(numeric_cols) > 0
SuitableForVisualization(df) ==
    LET numeric_cols == select_dtypes_number(df)
    IN Len(df.columns) >= 2 /\ Len(numeric_cols) > 0

ResultsContent == <<"Here are the results of your query:">>

\* Mutant: a summary call without content halts the turn with an error message.
GenerateSummaryStep_HaltOnFailure ==
    /\ pc = "generate_data_summary"
    /\ \E response \in SummaryResponses :
         LET summary_text == generate_data_summary(The(result_df), prompt, response)
             msg == [new_assistant_message EXCEPT
                        !.summary = Some(summary_text),
                        !.dataframe = result_df]
         IN /\ Called("generate_data_summary")
            /\ last_call' = Met("generate_data_summary", response)
            /\ notice' = IF SuitableForVisualization(The(result_df))
                         THEN notice ELSE st_info(NotSuitableInfo)
            /\ failed' = IF HasContent(response) THEN failed
                         ELSE failed \cup {"summary"}
            /\ IF ~HasContent(response)
               THEN Finish([new_assistant_message EXCEPT !.content = summary_text],
                           "FailedSummary")
               ELSE IF SuitableForVisualization(The(result_df))
               THEN /\ new_assistant_message' = msg
                    /\ pc' = "generate_plotly_code"
                    /\ turn' = "Summarized"
                    /\ UNCHANGED messages
               ELSE Finish([msg EXCEPT !.content = ResultsContent], "Completed")
    /\ fig' = None
    /\ plotly_code' = None
    /\ UNCHANGED <<df_main, user_input_prompt, show_example_button, prompt,
                   sql_query, result_df, error, local_vars, loop_iter,
                   schema_info, messages_sent>>

\* Step 3, first part: the summary, the result table, and the gate of the
\* visualization; with the gate closed the message is appended here.
GenerateSummaryStep ==
    /\ pc = "generate_data_summary"
    /\ \E response \in SummaryResponses :
         LET summary_text == generate_data_summary(The(result_df), prompt, response)
             msg == [new_assistant_message EXCEPT
                        !.summary = Some(summary_text),
                        !.dataframe = result_df]
         IN /\ Called("generate_data_summary")
            /\ last_call' = Met("generate_data_summary", response)
            /\ notice' = IF SuitableForVisualization(The(result_df))
                         THEN notice ELSE st_info(NotSuitableInfo)
            /\ failed' = IF HasContent(response) THEN failed
                         ELSE failed \cup {"summary"}
            /\ IF SuitableForVisualization(The(result_df))
               THEN /\ new_assistant_message' = msg
                    /\ pc' = "generate_plotly_code"
                    /\ turn' = "Summarized"
                    /\ UNCHANGED messages
               ELSE Finish([msg EXCEPT !.content = ResultsContent], "Completed")
    /\ fig' = None
    /\ plotly_code' = None
    /\ UNCHANGED <<df_main, user_input_prompt, show_example_button, prompt,
                   sql_query, result_df, error, local_vars, loop_iter,
                   schema_info, messages_sent>>

\* Step 3, second part: synthesize the code; empty code ends the turn.
GeneratePlotlyStep ==
    /\ pc = "generate_plotly_code"
    /\ \E response \in PlotlyResponses :
         LET code == generate_plotly_code(The(result_df), prompt, response)
             msg == [new_assistant_message EXCEPT !.plotly_code = Some(code)]
         IN /\ plotly_code' = Some(code)
            /\ Called("generate_plotly_code")
            /\ last_call' = Met("generate_plotly_code", response)
            /\ notice' = IF Truthy(code) THEN notice
                         ELSE st_info(NotGeneratedInfo)
            /\ failed' = IF HasContent(response) THEN failed
                         ELSE failed \cup {"synthesis"}
            /\ IF Truthy(code)
               THEN /\ new_assistant_message' = msg
                    /\ pc' = "exec"
                    /\ turn' = "Synthesized"
                    /\ UNCHANGED messages
               ELSE Finish([msg EXCEPT !.content = ResultsContent], "Completed")
    /\ UNCHANGED <<df_main, user_input_prompt, show_example_button, prompt,
                   sql_query, result_df, error, fig, local_vars, loop_iter,
                   schema_info, messages_sent>>

\* local_vars = {df: result_df, px: px}
SandboxNamespace == [n \in {"df", "px"} |->
                        IF n = "df" THEN "DataFrame" ELSE "plotly.express"]

\* Mutant: the sandbox is handed the session table.
SandboxTable_Session == "df_main"

\* The table bound to df in local_vars: result_df
SandboxTable == "result_df"

\* DataFrame.drop(index, inplace=True) on a table
dropped(df) == Table(df.columns, 0)

\* The run of exec(plotly_code, {}, local_vars).
SandboxRun == exec(The(plotly_code), {}, SandboxNamespace)

\* Step 3, third part: run the code and take fig.  An Exception is caught
\* (the except clause of the try), any other exception leaves the script.
\* Code that changes df in place changes the table it was handed, which is
\* also the object stored as dataframe of the message.
SandboxExecStep ==
    /\ pc = "exec"
    /\ LET r == SandboxRun
           got == get(r.locals, "fig")
           bound == ~IsNone(got) /\ TruthyValue(The(got))
           shown == r.outcome = "ok" /\ bound /\ Renderable(The(got))
           mutated == r.locals["df"] = RowsDropped
           after == IF mutated /\ SandboxTable = "result_df"
                    THEN Some(dropped(The(result_df))) ELSE result_df
       IN /\ r.outcome # "loop"
          /\ result_df' = after
          /\ df_main' = IF mutated /\ SandboxTable = "df_main"
                        THEN Some(dropped(The(df_main))) ELSE df_main
          /\ Called("exec")
          /\ local_vars' = r.locals
          /\ fig' = IF r.outcome = "ok" THEN got ELSE fig
          /\ failed' = IF shown THEN failed ELSE failed \cup {"sandbox"}
          /\ notice' = IF shown \/ r.outcome = "BaseException" THEN notice
                       ELSE IF r.outcome = "ok" /\ ~bound
                       THEN st_warning(NoChartWarning)
                       ELSE st_error(RenderingError)
          /\ IF r.outcome = "BaseException"
             THEN /\ pc' = "aborted"
                  /\ turn' = "Aborted"
                  /\ UNCHANGED <<messages, new_assistant_message>>
             ELSE Finish([new_assistant_message EXCEPT
                              !.dataframe = after,
                              !.plot = IF shown THEN got ELSE @,
                              !.content = ResultsContent],
                         "Completed")
    /\ UNCHANGED <<user_input_prompt, show_example_button, prompt,
                   sql_query, error, plotly_code, loop_iter,
                   schema_info, messages_sent, last_call>>

\* exec has started and the code loops: one more iteration.
SandboxLoop ==
    /\ pc = "exec"
    /\ SandboxRun.outcome = "loop"
    /\ loop_iter' = 1 - loop_iter
    /\ calls' = [calls EXCEPT !["exec"] = 1]
    /\ local_vars' = SandboxRun.locals
    /\ UNCHANGED <<df_main, messages, user_input_prompt, show_example_button,
                   pc, prompt, new_assistant_message, sql_query, result_df,
                   error, plotly_code, fig, failed, turn, schema_info, messages_sent, notice,
                   last_call>>

PipelineStep ==
    \/ GenerateSqlStep
    \/ ExecuteQueryStep
    \/ GenerateSummaryStep
    \/ GeneratePlotlyStep
    \/ SandboxExecStep
    \/ SandboxLoop

Next ==
    \/ ClickExampleButton
    \/ RunWithButtonPrompt
    \/ ChatInput
    \/ GenerateSqlStep
    \/ ExecuteQueryStep
    \/ GenerateSummaryStep
    \/ GeneratePlotlyStep
    \/ SandboxExecStep
    \/ SandboxLoop

Spec == Init /\ [][Next]_vars

\* The script runs to its end without waiting for anyone: a stage that can
\* take its step takes it.
FairSpec == Spec /\ WF_vars(PipelineStep) /\ WF_vars(RunWithButtonPrompt)

\* The application from its first script run on.
LoadNext == LoadStep \/ Next
LoadSpec == LoadInit /\ [][LoadNext]_vars

\* The standalone run of data_loader.
MainNext == MainLoadStep \/ MainSchemaStep
SchemaSpec == LoadInit /\ [][MainNext]_vars

\* A submission to st.chat_input while the script is still running the
\* pipeline: the widget of app.py line 123 stays on the page during the run
\* and is never disabled, Streamlit stops the running script at its next st
\* call (there is one between any two stages) and starts the run of the new
\* prompt.  The user message of the stopped run is already in the log.  Code
\* that loops inside exec makes no st call and is not stopped.
ChatInputDuringRun ==
    /\ pc \in {"generate_sql", "execute_query", "generate_data_summary",
               "generate_plotly_code", "exec"}
    /\ calls["exec"] = 0
    /\ NumUserTurns < MaxTurns
    /\ \E p \in ChatPrompts : StartTurn(p)
    /\ UNCHANGED user_input_prompt

InterruptNext == Next \/ ChatInputDuringRun

\* The session with a user who does not wait for the answer.
InterruptSpec == Init /\ [][InterruptNext]_vars

\* ================================================================ claims
LastMessage == messages[Len(messages)]
TurnEnded == pc \in {"idle", "aborted"} /\ turn # "None"
LaterStagesNotCalled(stages) == \A s \in stages : calls[s] = 0

\* The text occurs in the content, between backquotes.
Carries(content, text) ==
    \E i \in 1..Len(content) :
        /\ content[i] = Backquote
        /\ i + Len(text) + 1 <= Len(content)
        /\ SubSeq(content, i + 1, i + Len(text)) = text
        /\ content[i + Len(text) + 1] = Backquote

\* The assistant messages between user message i and the next user message.
AssistantAfter(i) ==
    Cardinality({j \in (i + 1)..Len(messages) :
                    /\ messages[j].role = "assistant"
                    /\ \A k \in (i + 1)..j : messages[k].role = "assistant"})
UserIndices == {i \in DOMAIN messages : messages[i].role = "user"}

\* C1: once the script run of a prompt has ended, exactly one assistant
\* message follows that user message, whatever the stages did; and at no
\* time do two assistant messages follow one user message.
C1_ExactlyOneAssistantPerUser ==
    /\ \A i \in UserIndices : AssistantAfter(i) <= 1
    /\ pc \in {"idle", "aborted"} => \A i \in UserIndices : AssistantAfter(i) = 1

\* C2: when translation fails the turn is Failed(Translation) and has
\* stopped: the last message is the assistant message carrying the error
\* text, and no later stage was invoked in the turn.
C2_TranslationFailureStops ==
    "translation" \in failed =>
        /\ turn = "FailedTranslation"
        /\ pc = "idle"
        /\ LastMessage.role = "assistant"
        /\ sql_query \in {ErrEmptyResponse, ErrCouldNotGenerate(ServiceException)}
        /\ Carries(LastMessage.content, sql_query)
        /\ LaterStagesNotCalled({"execute_query", "generate_data_summary",
                                 "generate_plotly_code", "exec"})

C2_Witness ==
    /\ "translation" \in failed
    /\ turn = "FailedTranslation"
    /\ sql_query = ErrCouldNotGenerate(ServiceException)
    /\ LastMessage.role = "assistant"

\* C3: when execute_query returns an error the turn is Failed(Execution) and
\* has stopped: the appended message has no table and no artifact and carries
\* the error, and neither summary nor visualization was invoked.
C3_ExecutionFailureStops ==
    "execution" \in failed =>
        /\ turn = "FailedExecution"
        /\ pc = "idle"
        /\ ~IsNone(error)
        /\ LastMessage.role = "assistant"
        /\ IsNone(LastMessage.dataframe)
        /\ IsNone(LastMessage.plot)
        /\ Carries(LastMessage.content, The(error))
        /\ LaterStagesNotCalled({"generate_data_summary", "generate_plotly_code",
                                 "exec"})

C3_Witness ==
    /\ "execution" \in failed
    /\ turn = "FailedExecution"
    /\ LastMessage.role = "assistant"
    /\ IsNone(LastMessage.dataframe)
    /\ calls["execute_query"] = 1

\* C4: a query that ran without error and gave zero rows ends the turn with
\* the no-results message, which no execution-error turn carries, and
\* neither summary nor visualization runs for it.  (A result table whose rows
\* generated code dropped afterwards is not a query that gave zero rows.)
C4_EmptyResultShortCircuits ==
    /\ (/\ calls["execute_query"] = 1
        /\ local_vars = <<>>
        /\ IsNone(error)
        /\ ~IsNone(result_df)
        /\ The(result_df).nrows = 0)
       => /\ turn = "NoResults"
          /\ pc = "idle"
          /\ LastMessage.role = "assistant"
          /\ LastMessage.content = NoResultsContent
          /\ "execution" \notin failed
          /\ LaterStagesNotCalled({"generate_data_summary",
                                   "generate_plotly_code", "exec"})
    /\ turn = "FailedExecution" => LastMessage.content # NoResultsContent

C4_Witness ==
    /\ calls["execute_query"] = 1
    /\ ~IsNone(result_df)
    /\ The(result_df).nrows = 0
    /\ turn = "NoResults"
    /\ LastMessage.content = NoResultsContent

\* The gating predicate as the claim states it: at least 2 columns and at
\* least one numeric column.
TwoColumnsOneNumeric(df) ==
    /\ Len(df.columns) >= 2
    /\ \E i \in 1..Len(df.columns) : df.columns[i].dtype \in {"int64", "float64"}

\* C5: synthesis and sandbox execution are invoked only for a result with at
\* least 2 columns and at least one numeric column, and for every non-empty
\* result with that shape the synthesis has been attempted once the summary
\* stage is over.
C5_VisualizationGate ==
    /\ (calls["generate_plotly_code"] > 0 \/ calls["exec"] > 0)
       => ~IsNone(result_df) /\ TwoColumnsOneNumeric(The(result_df))
    /\ (/\ turn \in {"Synthesized", "Completed", "Aborted"}
        /\ TwoColumnsOneNumeric(The(result_df)))
       => calls["generate_plotly_code"] = 1
    /\ (/\ turn = "Completed"
        /\ ~TwoColumnsOneNumeric(The(result_df)))
       => IsNone(LastMessage.plotly_code) /\ IsNone(LastMessage.plot)

C5_Witness ==
    /\ turn = "Completed"
    /\ The(result_df).columns = <<Col("country", "object"), Col("sales", "int64")>>
    /\ calls["generate_plotly_code"] = 1
    /\ calls["exec"] = 1

\* C6: for every non-empty result the summary stage runs exactly once,
\* with the gate open or closed, and whatever the summary call did the turn
\* goes on with the result table attached: from Executed the next state is
\* Summarized or Completed, never a failure.
C6_SummaryRunsOnceNeverHalts ==
    /\ [](turn = "Executed" => calls["generate_data_summary"] = 0 /\ ENABLED GenerateSummaryStep)
    /\ [](turn \in {"Summarized", "Synthesized", "Completed", "Aborted"}
             => /\ calls["generate_data_summary"] = 1
                /\ ~IsNone(new_assistant_message.summary)
                /\ ~IsNone(result_df)
                /\ new_assistant_message.dataframe = result_df)
    /\ [](turn = "Completed" => /\ LastMessage = new_assistant_message
                                /\ LastMessage.dataframe = result_df)
    /\ [][turn = "Executed" => turn' \in {"Summarized", "Completed"}]_vars

C6_Witness ==
    /\ turn = "Completed"
    /\ "summary" \in failed
    /\ ~TwoColumnsOneNumeric(The(result_df))
    /\ LastMessage.dataframe = result_df
    /\ LastMessage.summary = Some(ErrSummary(ServiceException))

\* C7: when the gate holds and the visualization stage fails (synthesis
\* failure, empty code, generated code raising, or no artifact bound), the
\* turn ends Completed with an assistant message carrying the result table
\* and the summary and an empty plot slot.
C7_VisualizationFailureCompletes ==
    (/\ TurnEnded
     /\ calls["generate_plotly_code"] = 1
     /\ failed \cap {"synthesis", "sandbox"} # {})
    => /\ turn = "Completed"
       /\ LastMessage.role = "assistant"
       /\ LastMessage.dataframe = result_df
       /\ ~IsNone(LastMessage.summary)
       /\ IsNone(LastMessage.plot)

\* C8: execute_query returns exactly one of a result table and an error
\* message, and a statement the engine rejects gives the error.
C8_ExactlyOneOfTableAndError ==
    calls["execute_query"] = 1 =>
        /\ IsNone(result_df) # IsNone(error)
        /\ "execution" \in failed => ~IsNone(error)

\* The names the lines of a code text read.
ReferencedNames(code) ==
    UNION {Parse(split_nl(code)[i]).reads : i \in 1..Len(split_nl(code))}

\* C9: executed code that reads a name other than df and px ends in a
\* sandbox error: it yields no artifact.
C9_OnlyDfAndPxReachable ==
    (/\ calls["exec"] = 1
     /\ pc # "exec"
     /\ ~(ReferencedNames(The(plotly_code)) \subseteq {"df", "px"}))
    => /\ "sandbox" \in failed
       /\ IsNone(new_assistant_message.plot)

\* C10: generated code that does not terminate on its own still leads to
\* the end of the turn with a sandbox error and an appended assistant turn.
C10_SandboxTimeBounded ==
    (pc = "exec" /\ SandboxRun.outcome = "loop")
    ~> (pc = "idle" /\ "sandbox" \in failed /\ LastMessage.role = "assistant")

\* An absent completion, or one that is empty once whitespace and the fence
\* markers are stripped.
EmptyCompletion(response) ==
    \/ response.kind = "none"
    \/ /\ response.kind = "content"
       /\ strip(replace1(replace2(response.text, Fence, "sql"), Fence)) = <<>>

\* C11: for every completion that is absent, empty, or empty once whitespace
\* and code-fence markers are stripped, generate_sql returns a translation
\* error (the turn fails in translation), so an empty query string is never
\* passed to execute_query.
C11_EmptyResponseIsTranslationError ==
    /\ (last_call.stage = "generate_sql" /\ EmptyCompletion(last_call.response))
          => (IsSqlError(sql_query) /\ turn = "FailedTranslation")
    /\ (pc = "execute_query" \/ calls["execute_query"] > 0) => sql_query # <<>>

\* C12: generate_data_summary returns a string for every outcome of the
\* service call: the trimmed response when that is non-empty, and the one
\* fixed fallback string whenever the response is absent, empty, or empty
\* after trimming.
C12_SummaryTrimmedOrFallback ==
    last_call.stage = "generate_data_summary" =>
        LET response == last_call.response
            summary == new_assistant_message.summary
        IN /\ ~IsNone(summary)
           /\ (response.kind = "content" /\ strip(response.text) # <<>>)
                 => The(summary) = strip(response.text)
           /\ (response.kind = "none"
                 \/ (response.kind = "content" /\ strip(response.text) = <<>>))
                 => The(summary) = SummaryFallback

\* A line that begins with an import directive, whatever its indentation.
IsImportDirective(line) ==
    startswith(lstrip(line), "import ") \/ startswith(lstrip(line), "from ")

\* C13: the code generate_plotly_code returns for a non-empty completion has
\* no line that begins with an import directive (import x or from x import y,
\* with any indentation), and every other line of the fence-stripped
\* completion is kept, in the original order.
C13_NoImportLineOthersKept ==
    (last_call.stage = "generate_plotly_code" /\ HasContent(last_call.response))
    => LET text == last_call.response.text
           stripped == replace1(replace2(strip(text), Fence, "python"), Fence)
           returned == split_nl(The(plotly_code))
       IN /\ \A i \in DOMAIN returned : ~IsImportDirective(returned[i])
          /\ returned = SelectSeq(split_nl(stripped),
                                  LAMBDA line : ~IsImportDirective(line))

\* C14: within one turn every stage (translation, execution, summary,
\* synthesis, sandbox exec) is invoked at most once, and a stage that failed
\* is not attempted again in that turn.
C14_EachStageAtMostOnce ==
    /\ [](\A s \in Stages : calls[s] <= 1)
    /\ [][\A s \in Stages :
              (s \in failed /\ turn' # "Received") => calls'[s] = calls[s]]_vars

\* All five stages ran once, the sandbox failed, and the turn has ended.
C14_Witness ==
    /\ turn = "Completed"
    /\ pc = "idle"
    /\ \A s \in Stages : calls[s] = 1
    /\ "sandbox" \in failed

\* C15: the message log is append-only and its entries are immutable: a step
\* leaves the log alone or adds one entry at its end, so no entry is removed,
\* reordered or modified; and an assistant message is appended only with all
\* its fields final: the entry is the message under construction as it
\* stands, and the script run ends with the append.
C15_AppendOnlyImmutable ==
    [][/\ Len(messages') \in {Len(messages), Len(messages) + 1}
       /\ SubSeq(messages', 1, Len(messages)) = messages
       /\ (Len(messages') > Len(messages)
             /\ messages'[Len(messages')].role = "assistant")
            => /\ messages'[Len(messages')] = new_assistant_message'
               /\ pc' = "idle"]_vars

\* Two turns are in the log, the first one still there with its own content.
C15_Witness ==
    /\ Len(messages) = 5
    /\ messages[3].role = "assistant"
    /\ messages[5].role = "assistant"
    /\ messages[3] # messages[5]
    /\ pc = "idle"

\* C16: turns never overlap: the assistant message of a turn is appended
\* before the next user prompt is accepted, so the log never holds two user
\* messages with no assistant message between them.
C16_TurnsNeverOverlap ==
    \A i \in DOMAIN messages :
        (i < Len(messages) /\ messages[i].role = "user")
            => messages[i + 1].role = "assistant"

\* The line get_schema writes for a column.
SchemaLine(col) == <<"- Column: ", col.name, " (Type: ", col.dtype, ")">>

\* C17: get_schema lists every column of the table exactly once, in the
\* order of the columns, one line per column with its name and its type; for
\* an absent table (None) it returns the empty description.
C17_SchemaListsEachColumnOnce ==
    /\ get_schema(None) = <<>>
    /\ (pc = "done" /\ ~IsNone(df_main)) =>
         LET cols == The(df_main).columns
             lines == split_nl(schema_info)
         IN /\ Len(lines) = Len(cols) + 2
            /\ lines[1] = <<"Table df has the following columns and data types:">>
            /\ lines[Len(lines)] = <<>>
            /\ \A i \in DOMAIN cols : lines[i + 1] = SchemaLine(cols[i])
            /\ \A i \in DOMAIN cols :
                   Cardinality({j \in DOMAIN lines :
                                   Len(lines[j]) >= 2
                                   /\ lines[j][2] = cols[i].name}) = 1

\* A table of MaxColumns columns was described.
C17_Witness ==
    /\ pc = "done"
    /\ ~IsNone(df_main)
    /\ Len(The(df_main).columns) = 3
    /\ The(df_main).columns[1].name = "net_sales"
    /\ schema_info # <<>>

\* C18: a failed load is an absent table (load_data returns None whenever
\* reading the file fails, and the script goes on to its load-failure branch),
\* and with an absent table the pipeline never runs: no message log is
\* created, no prompt is accepted and no stage is invoked.
C18_FailedLoadNoPipeline ==
    /\ (last_call.stage = "load_data" /\ last_call.response.kind # "workbook")
          => (IsNone(df_main) /\ pc = "idle" /\ notice = st_error(CriticalError))
    /\ IsNone(df_main)
          => /\ messages = <<>>
             /\ ~show_example_button
             /\ prompt = <<>>
             /\ turn = "None"
             /\ \A s \in Stages : calls[s] = 0
             /\ pc \in {"load", "idle"}

\* The load failed and the script has shown the critical error.
C18_Witness ==
    /\ last_call = Met("load_data", FileUnreadable)
    /\ IsNone(df_main)
    /\ pc = "idle"
    /\ notice = st_error(CriticalError)

\* C19: after the sandbox run the artifact of the turn is exactly the value
\* the code bound to fig: when the code ran without raising and bound fig,
\* the plot of the appended message is that value; when fig is not bound the
\* plot is empty and the run reports that no chart was produced, which is not
\* the report of code that raised.
C19_ArtifactIsBoundFig ==
    (turn = "Completed" /\ pc = "idle" /\ calls["exec"] = 1
        /\ SandboxRun.outcome = "ok")
    => IF "fig" \in DOMAIN local_vars
       THEN LastMessage.plot = Some(local_vars["fig"])
       ELSE /\ LastMessage.plot = None
            /\ notice = st_warning(NoChartWarning)
            /\ notice # st_error(RenderingError)

\* The texts the history loop renders from a stored message.
MessageTexts(msg) ==
    {msg.content}
    \cup {The(msg[f]) : f \in {g \in {"summary", "sql_query", "plotly_code"} :
                                   ~IsNone(msg[g])}}

\* C20: every non-fatal failure of the visualization is recorded on the
\* appended message: when the synthesis fails, or the generated code raises
\* or binds no artifact, the stored assistant message carries the reason, so
\* that a later rendering of the conversation still shows it.
C20_VisualizationFailureRecorded ==
    (turn = "Completed" /\ pc = "idle") =>
        /\ (last_call.stage = "generate_plotly_code"
              /\ last_call.response.kind = "raise")
             => ErrPlotly(last_call.response.text) \in MessageTexts(LastMessage)
        /\ (calls["exec"] = 1 /\ "sandbox" \in failed)
             => /\ ~IsNone(notice)
                /\ The(notice).text \in MessageTexts(LastMessage)

\* The text holds no error text of a stage.
ErrorFree(content) ==
    \A k \in DOMAIN content :
        content[k] \notin {"Error:", "SQL Error: ", "An unexpected error occurred: "}

\* C21: the messages sent to the translator are one system instruction and
\* then every message of the log in order, each with its role and text only,
\* the last one being the current user prompt; no result table, artifact,
\* generated query, generated code, summary or error content of an earlier
\* turn is in it.
C21_TranslatorSeesRoleAndTextOnly ==
    messages_sent # <<>> =>
        LET n == CHOOSE i \in UserIndices : \A j \in UserIndices : j <= i
        IN /\ messages_sent[1].role = "system"
           /\ Len(messages_sent) = n + 1
           /\ \A i \in 1..n :
                 /\ DOMAIN messages_sent[i + 1] = {"role", "content"}
                 /\ messages_sent[i + 1].role = messages[i].role
                 /\ messages_sent[i + 1].content = messages[i].content
                 /\ messages_sent[i + 1].role # "system"
                 /\ ErrorFree(messages_sent[i + 1].content)
           /\ messages_sent[n + 1] = [role |-> "user", content |-> prompt]

\* C22: turn processing leaves the session table alone: whatever the query
\* text and the generated code, the table the next query runs on is the table
\* that was loaded; the sandbox is handed the result table, not the session
\* table, so code that changes df in place changes the result table.
C22_SessionTableUnchanged ==
    /\ df_main = Some(LoadedTable)
    /\ (calls["exec"] = 1 /\ local_vars # <<>>
          /\ local_vars["df"] = RowsDropped)
         => (~IsNone(result_df) /\ The(result_df).nrows = 0)

\* The first turn ran code that dropped the rows of df, and the query of the
\* second turn has run on the session table.
C22_Witness ==
    /\ Len(messages) >= 4
    /\ messages[3].plotly_code = Some(<<"df.drop(df.index, inplace=True)">>)
    /\ calls["execute_query"] = 1
    /\ pc = "generate_data_summary"
    /\ df_main = Some(LoadedTable)

\* C23: a turn fails in translation only if the translation call failed or
\* returned an empty completion: no non-empty completion, whatever its text,
\* is classified as a translation error, and every such completion is passed
\* on to execute_query.
C23_OnlyServiceFailureFailsTranslation ==
    last_call.stage = "generate_sql" =>
        /\ turn = "FailedTranslation" => ~HasContent(last_call.response)
        /\ HasContent(last_call.response)
             => (turn = "Translated" /\ pc = "execute_query")

\* C24: the sandbox only runs post-processed model output: when the
\* synthesis call fails or returns an empty completion, exec is not invoked
\* in that turn and the generated-code slot of the turn holds no text the
\* model did not produce.
C24_SandboxRunsModelOutputOnly ==
    (last_call.stage = "generate_plotly_code" /\ ~HasContent(last_call.response))
    => /\ pc # "exec"
       /\ calls["exec"] = 0
       /\ new_assistant_message.plotly_code \in {None, Some(<<>>)}

====
